---------------------------- MODULE Spec2Model ----------------------------
(***************************************************************************)
(* Model of the NeMo Retriever Parse plugin: nemo_retriever.py (HTTP       *)
(* upload, parse invocation, response conversion, batch run) and the       *)
(* operator of __init__.py that calls it.                                  *)
(*                                                                         *)
(* Python values are tagged records.  A call that may raise returns        *)
(* [exc, val]: exc = "None" when it returned, otherwise the exception      *)
(* class.  Coordinates are integers: Python's float() of them and the      *)
(* subtraction are then exact.                                             *)
(***************************************************************************)
EXTENDS Integers, Sequences, FiniteSets, TLC

\* ---------------------------------------------------------------- bounds
\* Longest list of paths of a dataset.
MaxPaths == 3
\* Longest element list carried by a response's tool-call arguments.
MaxElems == 2

\* ------------------------------------------------------------ exceptions
Ret(v) == [exc |-> "None", val |-> v]
Raise(e) == [exc |-> e, val |-> <<>>]

\* The classes `except Exception` catches: everything the modelled calls raise.
ExceptionClasses ==
    {"KeyError", "IndexError", "TypeError", "ValueError", "AttributeError",
     "JSONDecodeError", "HTTPError", "ConnectionError", "OSError"}

\* ----------------------------------------------------------- JSON values
\* A coordinate of a bbox object: a number, a numeric string ("10"), a string
\* float() rejects, or an absent key.
Num(v) == [k |-> "num", v |-> v]
NumStr(v) == [k |-> "numstr", v |-> v]
BadNum == [k |-> "bad", v |-> 0]
Missing == [k |-> "missing", v |-> 0]

\* An element object of the decoded arguments.
MkElem(type, text, hasBbox, xmin, ymin, xmax, ymax) ==
    [type |-> type, text |-> text, hasBbox |-> hasBbox,
     xmin |-> xmin, ymin |-> ymin, xmax |-> xmax, ymax |-> ymax]

NoKey == "<absent>"

GoodElem1 == MkElem("Title", "a", TRUE, Num(10), Num(20), Num(110), Num(220))
GoodElem2 == MkElem("Text", "b", TRUE, Num(0), NumStr(5), Num(7), Num(9))

Elems ==
    { GoodElem1, GoodElem2,
      MkElem(NoKey, "c", TRUE, Num(1), Num(2), Num(3), Num(4)),
      MkElem("Table", NoKey, TRUE, Num(1), Num(2), Num(3), Num(4)),
      MkElem("Text", "d", FALSE, Missing, Missing, Missing, Missing),
      MkElem("Text", "e", TRUE, Num(1), Num(2), BadNum, Num(4)),
      MkElem("Text", "f", TRUE, Num(1), Num(2), Num(3), Missing) }

\* One record shape for every JSON value; k is the Python type after decoding.
NoElem == MkElem(NoKey, NoKey, FALSE, Missing, Missing, Missing, Missing)

JNum(n) == [k |-> "num", n |-> n, s |-> "", items |-> <<>>, e |-> NoElem]
JStr(s) == [k |-> "str", n |-> 0, s |-> s, items |-> <<>>, e |-> NoElem]
JList(items) == [k |-> "list", n |-> 0, s |-> "", items |-> items, e |-> NoElem]
JObj(e) == [k |-> "obj", n |-> 0, s |-> "", items |-> <<>>, e |-> e]

\* Keys of an element object, in insertion order (what iterating a dict yields).
ElemKeys(e) ==
    (IF e.type # NoKey THEN <<"type">> ELSE <<>>) \o
    (IF e.text # NoKey THEN <<"text">> ELSE <<>>) \o
    (IF e.hasBbox THEN <<"bbox">> ELSE <<>>)

\* ------------------------------------------------------------ json.loads
\* The arguments text is a token sequence; objects and numbers are one token.
Tok(t) == [t |-> t]
NumTok(n) == [t |-> "num", n |-> n]
ObjTok(e) == [t |-> "obj", e |-> e]

PFail == [ok |-> FALSE, val |-> JNum(0)]
POk(v) == [ok |-> TRUE, val |-> v]

\* The decoder's scan from token p.  stack holds the items of every list
\* still open; after = TRUE when a value (top) has just been read and a
\* comma, a closing bracket or the end of the text must follow.
RECURSIVE Scan(_, _, _, _, _)
Scan(s, p, stack, after, top) ==
    IF p > Len(s)
    THEN IF after /\ Len(stack) = 0 THEN POk(top) ELSE PFail
    ELSE IF ~after
    THEN IF s[p].t = "num" THEN Scan(s, p + 1, stack, TRUE, JNum(s[p].n))
         ELSE IF s[p].t = "obj" THEN Scan(s, p + 1, stack, TRUE, JObj(s[p].e))
         ELSE IF s[p].t = "["
              THEN IF p + 1 <= Len(s) /\ s[p + 1].t = "]"
                   THEN Scan(s, p + 2, stack, TRUE, JList(<<>>))
                   ELSE Scan(s, p + 1, Append(stack, <<>>), FALSE, top)
         ELSE PFail
    ELSE IF Len(stack) = 0 THEN PFail
    ELSE LET n == Len(stack)
             items == Append(stack[n], top)
         IN  IF s[p].t = ","
             THEN Scan(s, p + 1, [stack EXCEPT ![n] = items], FALSE, top)
             ELSE IF s[p].t = "]"
             THEN Scan(s, p + 1, SubSeq(stack, 1, n - 1), TRUE, JList(items))
             ELSE PFail

\* json.loads(bbox_data): arguments that are not a str raise TypeError, text
\* that is not one complete JSON value raises JSONDecodeError.
Loads(arguments) ==
    IF ~arguments.isStr THEN Raise("TypeError")
    ELSE LET r == Scan(arguments.text, 1, <<>>, FALSE, JNum(0)) IN
         IF r.ok THEN Ret(r.val) ELSE Raise("JSONDecodeError")

\* -------------------------------------------------- response -> detections
\* A response body.  `missing` names the first lookup of
\* response['choices'][0]['message']['tool_calls'][0]['function']['arguments']
\* that is absent ("none": the whole chain is there).
MkResponse(isDict, missing, arguments, usage) ==
    [isDict |-> isDict, missing |-> missing, arguments |-> arguments,
     usage |-> usage]

\* response[...]...['arguments']
GetArguments(response) ==
    IF ~response.isDict THEN Raise("TypeError")
    ELSE IF response.missing \in {"choices", "message", "tool_calls",
                                  "function", "arguments"}
         THEN Raise("KeyError")
    ELSE IF response.missing \in {"choices[0]", "tool_calls[0]"}
         THEN Raise("IndexError")
    ELSE Ret(response.arguments)

\* json.loads(bbox_data)[0]
FirstOf(v) ==
    IF v.k = "list"
    THEN IF Len(v.items) = 0 THEN Raise("IndexError") ELSE Ret(v.items[1])
    ELSE IF v.k = "obj" THEN Raise("KeyError")
    ELSE Raise("TypeError")

\* for elem in elements: a list yields its items, a dict its keys, a number
\* is not iterable.
Iterate(v) ==
    IF v.k = "list" THEN Ret(v.items)
    ELSE IF v.k = "obj" THEN Ret([i \in 1..Len(ElemKeys(v.e)) |-> JStr(ElemKeys(v.e)[i])])
    ELSE Raise("TypeError")

\* float(elem['bbox'][name])
FloatOf(c) ==
    IF c.k = "missing" THEN Raise("KeyError")
    ELSE IF c.k = "bad" THEN Raise("ValueError")
    ELSE Ret(c.v)

Detection(label, bounding_box, text) ==
    [label |-> label, bounding_box |-> bounding_box, text |-> text]

\* The body of the for loop for one elem, in evaluation order:
\* bbox xmin, ymin, xmax, (xmin), ymax, (ymin), then elem['type'], elem['text'].
ConvertElem_NoWidth(elem) ==
    IF elem.k # "obj" THEN Raise("TypeError")
    ELSE LET e == elem.e IN
    IF ~e.hasBbox THEN Raise("KeyError")
    ELSE IF FloatOf(e.xmin).exc # "None" THEN Raise(FloatOf(e.xmin).exc)
    ELSE IF FloatOf(e.ymin).exc # "None" THEN Raise(FloatOf(e.ymin).exc)
    ELSE IF FloatOf(e.xmax).exc # "None" THEN Raise(FloatOf(e.xmax).exc)
    ELSE IF FloatOf(e.ymax).exc # "None" THEN Raise(FloatOf(e.ymax).exc)
    ELSE IF e.type = NoKey \/ e.text = NoKey THEN Raise("KeyError")
    ELSE Ret(Detection(e.type,
                       <<FloatOf(e.xmin).val, FloatOf(e.ymin).val,
                         FloatOf(e.xmax).val, FloatOf(e.ymax).val>>,
                       e.text))

ConvertElem(elem) ==
    IF elem.k # "obj" THEN Raise("TypeError")
    ELSE LET e == elem.e IN
    IF ~e.hasBbox THEN Raise("KeyError")
    ELSE IF FloatOf(e.xmin).exc # "None" THEN Raise(FloatOf(e.xmin).exc)
    ELSE IF FloatOf(e.ymin).exc # "None" THEN Raise(FloatOf(e.ymin).exc)
    ELSE IF FloatOf(e.xmax).exc # "None" THEN Raise(FloatOf(e.xmax).exc)
    ELSE IF FloatOf(e.ymax).exc # "None" THEN Raise(FloatOf(e.ymax).exc)
    ELSE IF e.type = NoKey \/ e.text = NoKey THEN Raise("KeyError")
    ELSE Ret(Detection(e.type,
                       <<FloatOf(e.xmin).val, FloatOf(e.ymin).val,
                         FloatOf(e.xmax).val - FloatOf(e.xmin).val,
                         FloatOf(e.ymax).val - FloatOf(e.ymin).val>>,
                       e.text))

\* The for loop: detections already appended stay when a later elem raises.
RECURSIVE ConvertFrom(_, _, _)
ConvertFrom(items, k, detections) ==
    IF k > Len(items) THEN [exc |-> "None", detections |-> detections]
    ELSE LET r == ConvertElem(items[k]) IN
         IF r.exc # "None" THEN [exc |-> r.exc, detections |-> detections]
         ELSE ConvertFrom(items, k + 1, Append(detections, r.val))

\* The try block: the exception that left it ("None" if none) and the list
\* `detections` as it stands then.  Each stage takes the outcome of the
\* expression before it.
Left(exc) == [exc |-> exc, detections |-> <<>>]

\* for elem in elements: ...
ForLoop(it) ==
    IF it.exc # "None" THEN Left(it.exc) ELSE ConvertFrom(it.val, 1, <<>>)

\* elements = json.loads(bbox_data)[0]
Elements(d) ==
    IF d.exc # "None" THEN Raise(d.exc) ELSE FirstOf(d.val)

\* json.loads(bbox_data)
Decoded(a) ==
    IF a.exc # "None" THEN Raise(a.exc) ELSE Loads(a.val)

ElementsIter(f) ==
    IF f.exc # "None" THEN Raise(f.exc) ELSE Iterate(f.val)

TryBody(response) ==
    ForLoop(ElementsIter(Elements(Decoded(GetArguments(response)))))

\* except Exception as e
CaughtByParse_LookupOnly(exc) == exc \in {"KeyError", "IndexError"}

CaughtByParse(exc) == exc \in ExceptionClasses

\* Detections(detections=detections): the region collection is its list.
Detections(detections) == detections

\* The except clause and the return statement, given how the try block ended.
ExceptAndReturn(b) ==
    IF b.exc = "None" \/ CaughtByParse(b.exc)
    THEN Ret(Detections(b.detections))
    ELSE Raise(b.exc)

parse_nemo_response_to_detections(response) == ExceptAndReturn(TryBody(response))

\* ------------------------------------------------------ response inputs
Usage(k, keys, p, c, t) == [k |-> k, keys |-> keys, p |-> p, c |-> c, t |-> t]

\* "absent": the response has no usage key; "null": the key holds null;
\* "dict": an object holding the counters named by keys.
NoUsage == Usage("absent", {}, 0, 0, 0)
NullUsage == Usage("null", {}, 0, 0, 0)
FullUsage == Usage("dict", {"prompt_tokens", "completion_tokens", "total_tokens"}, 5, 7, 12)
PromptOnlyUsage == Usage("dict", {"prompt_tokens"}, 3, 0, 0)

Usages == {NoUsage, NullUsage, FullUsage, PromptOnlyUsage}

Str(text) == [isStr |-> TRUE, text |-> text]
NotStr == [isStr |-> FALSE, text |-> <<>>]

\* The JSON text of a list of element objects: [e1,e2,...]
RECURSIVE Join(_, _)
Join(es, k) ==
    IF k > Len(es) THEN <<>>
    ELSE (IF k > 1 THEN <<Tok(",")>> ELSE <<>>) \o <<ObjTok(es[k])>> \o Join(es, k + 1)

ListText(es) == <<Tok("[")>> \o Join(es, 1) \o <<Tok("]")>>
\* The documented shape: a list whose first element is the element list.
NestedText(es) == <<Tok("[")>> \o ListText(es) \o <<Tok("]")>>

ElemSeqs == UNION {[1..m -> Elems] : m \in 0..MaxElems}

Texts ==
    {NestedText(es) : es \in ElemSeqs}
    \cup {ListText(es) : es \in ElemSeqs}
    \cup {SubSeq(NestedText(es), 1, Len(NestedText(es)) - 1) : es \in ElemSeqs}
    \cup {<<ObjTok(GoodElem1)>>, <<NumTok(7)>>, <<Tok("["), NumTok(7), Tok("]")>>,
          <<Tok("["), ObjTok(GoodElem1), Tok(","), Tok("]")>>, <<>>}

MissingKeys ==
    {"choices", "choices[0]", "message", "tool_calls", "tool_calls[0]",
     "function", "arguments"}

NonDictResponse == MkResponse(FALSE, "none", NotStr, NoUsage)

\* Every response body the conversion is checked on.
Responses ==
    {MkResponse(TRUE, "none", Str(t), u) : t \in Texts, u \in {NoUsage, FullUsage}}
    \cup {MkResponse(TRUE, m, NotStr, u) : m \in MissingKeys, u \in Usages}
    \cup {MkResponse(TRUE, "none", NotStr, FullUsage), NonDictResponse}

\* The response bodies the mocked parse endpoint of a run answers with.
RunResponses ==
    { NonDictResponse,
      MkResponse(TRUE, "tool_calls", NotStr, FullUsage),
      MkResponse(TRUE, "none", Str(NestedText(<<GoodElem1>>)), FullUsage),
      MkResponse(TRUE, "none", Str(NestedText(<<GoodElem2, GoodElem1>>)), NoUsage),
      MkResponse(TRUE, "none", Str(NestedText(<<GoodElem2>>)), NullUsage) }

\* -------------------------------------------------------------- HTTP calls
\* What the environment answers for one image: whether the file can be read,
\* the status of each call (0: no response, requests raised), what the
\* registration body holds, whether the parse body decodes, and its value.
Statuses == {0, 200, 401}
RegBodies == {"ok", "no_uploadUrl", "no_assetId"}

AllEnvs ==
    [file_ok : BOOLEAN, reg : Statuses, reg_body : RegBodies, put : Statuses,
     parse : Statuses, parse_json : BOOLEAN, response : RunResponses]

\* An answer exists only for a call that is issued: the answers of the steps
\* after the first failing one are fixed (200, "ok", TRUE, NonDictResponse).
RegOk(e) == e.file_ok /\ e.reg = 200
PutIssued(e) == RegOk(e) /\ e.reg_body # "no_uploadUrl"
ParseIssued(e) == PutIssued(e) /\ e.put = 200 /\ e.reg_body = "ok"
Answered(e) == ParseIssued(e) /\ e.parse = 200 /\ e.parse_json

Envs ==
    {e \in AllEnvs :
        /\ e.file_ok \/ e.reg = 200
        /\ RegOk(e) \/ e.reg_body = "ok"
        /\ PutIssued(e) \/ e.put = 200
        /\ ParseIssued(e) \/ (e.parse = 200 /\ e.parse_json)
        /\ Answered(e) \/ e.response = NonDictResponse}

Call(name, status) == [call |-> name, status |-> status]

\* response.raise_for_status(): raises HTTPError on a 4xx or 5xx status.
RaiseForStatus_Never(status) == FALSE

RaiseForStatus(status) == status >= 400 /\ status < 600

HttpResult(exc, calls) == [exc |-> exc, calls |-> calls]

upload_asset(env) ==
    IF env.reg = 0
    THEN HttpResult("ConnectionError", <<Call("POST assets", env.reg)>>)
    ELSE IF RaiseForStatus(env.reg)
    THEN HttpResult("HTTPError", <<Call("POST assets", env.reg)>>)
    ELSE IF env.reg_body = "no_uploadUrl"
    THEN HttpResult("KeyError", <<Call("POST assets", env.reg)>>)
    ELSE HttpResult(
            IF env.put = 0 THEN "ConnectionError"
            ELSE IF RaiseForStatus(env.put) THEN "HTTPError"
            ELSE IF env.reg_body = "no_assetId" THEN "KeyError"
            ELSE "None",
            <<Call("POST assets", env.reg), Call("PUT uploadUrl", env.put)>>)

\* process_image after upload_asset ended as u: the parse POST and its body.
ParseCall(env, u) ==
    IF u.exc # "None" THEN u
    ELSE HttpResult(
            IF env.parse = 0 THEN "ConnectionError"
            ELSE IF RaiseForStatus(env.parse) THEN "HTTPError"
            ELSE IF ~env.parse_json THEN "JSONDecodeError"
            ELSE "None",
            Append(u.calls, Call("POST chat/completions", env.parse)))

process_image(env) ==
    IF ~env.file_ok THEN HttpResult("OSError", <<>>)
    ELSE ParseCall(env, upload_asset(env))

\* ------------------------------------------------------- batch iteration
Lists(d, p, c, t) ==
    [all_detections |-> d, prompt_tokens |-> p, completion_tokens |-> c,
     total_tokens |-> t]

\* usage.get(key, 0)
UsageGet(usage, key, v) == IF key \in usage.keys THEN v ELSE 0

\* The try block of the loop body once process_image ended as r: the
\* exception that left it ("None" if none), the accumulators as they stand
\* then, and the calls issued.
Left2(exc, L, r) ==
    [exc |-> exc, L |-> L, calls |-> r.calls, returned |-> r.exc = "None"]

\* usage = response.get('usage', {}) and the three appends.
UsageAppends(L, response, r) ==
    IF ~response.isDict \/ response.usage.k = "null"
    THEN Left2("AttributeError", L, r)
    ELSE Left2("None",
               [L EXCEPT
                  !.prompt_tokens = Append(@, UsageGet(response.usage, "prompt_tokens", response.usage.p)),
                  !.completion_tokens = Append(@, UsageGet(response.usage, "completion_tokens", response.usage.c)),
                  !.total_tokens = Append(@, UsageGet(response.usage, "total_tokens", response.usage.t))],
               r)

\* detections = parse_nemo_response_to_detections(response) ended as d.
DetectionsAppend(L, response, r, d) ==
    IF d.exc # "None" THEN Left2(d.exc, L, r)
    ELSE UsageAppends([L EXCEPT !.all_detections = Append(@, d.val)], response, r)

AfterProcessImage(L, env, r) ==
    IF r.exc # "None" THEN Left2(r.exc, L, r)
    ELSE DetectionsAppend(L, env.response, r,
                          parse_nemo_response_to_detections(env.response))

TryBlock(L, env) == AfterProcessImage(L, env, process_image(env))

\* The except block: empty detections and zero for the three counters.
ExceptBlock(L) ==
    Lists(Append(L.all_detections, Detections(<<>>)), Append(L.prompt_tokens, 0),
          Append(L.completion_tokens, 0), Append(L.total_tokens, 0))

\* except Exception as e (of the loop body)
CaughtByRun_HTTPErrorOnly(exc) == exc = "HTTPError"

CaughtByRun(exc) == exc \in ExceptionClasses

\* One pass of the loop body: exc is the exception that escapes it.
ExceptClause(b) ==
    IF b.exc # "None" /\ CaughtByRun(b.exc)
    THEN [b EXCEPT !.exc = "None", !.L = ExceptBlock(b.L)]
    ELSE b

Iteration(L, env) == ExceptClause(TryBlock(L, env))

\* The four set_values calls, in program order.
WriteOrder_CountersFirst ==
    <<"nemo_prompt_tokens", "nemo_detections", "nemo_completion_tokens",
      "nemo_total_tokens">>

WriteOrder ==
    <<"nemo_detections", "nemo_prompt_tokens", "nemo_completion_tokens",
      "nemo_total_tokens">>

\* Names nemo_retriever.py defines, and the name __init__.py imports from it.
NemoRetrieverNames ==
    {"create_headers", "upload_asset", "process_image",
     "parse_nemo_response_to_detections", "run_nemo_parse"}

ImportedName == "run_nemo_retriever_parse"

\* ---------------------------------------------------------------- state
VARIABLES
    pc,                 \* position of run_nemo_parse
    dataset,            \* the host dataset: samples and the fields written
    filepaths,          \* dataset.values("filepath")
    i,                  \* number of paths the loop has processed
    all_detections, prompt_tokens, completion_tokens, total_tokens,
    calls,              \* HTTP calls issued so far, in order
    outcomes,           \* what the environment answered for each processed path
    plugin,             \* the plugin package in the host
    host,               \* the host's view of the operator execution
    reloads,            \* ctx.ops.reload_dataset() signals emitted
    response, result    \* input and output of one conversion call

vars ==
    <<pc, dataset, filepaths, i, all_detections, prompt_tokens,
      completion_tokens, total_tokens, calls, outcomes, plugin, host, reloads,
      response, result>>

accs == <<all_detections, prompt_tokens, completion_tokens, total_tokens>>

Fields == {WriteOrder[k] : k \in 1..4}

Pending == [done |-> FALSE, exc |-> "None", regions |-> <<>>]

\* A dataset of n samples none of whose result fields is written.
Dataset(n) == [n |-> n, written |-> <<>>, values |-> [f \in Fields |-> <<>>]]

InitRun ==
    /\ pc = "idle"
    /\ filepaths = <<>>
    /\ i = 0
    /\ all_detections = <<>> /\ prompt_tokens = <<>>
    /\ completion_tokens = <<>> /\ total_tokens = <<>>
    /\ calls = <<>>
    /\ outcomes = <<>>
    /\ plugin = "unloaded"
    /\ host = "idle"
    /\ reloads = 0

Init ==
    /\ InitRun
    /\ dataset \in {Dataset(n) : n \in 0..MaxPaths}
    /\ response = NonDictResponse
    /\ result = Pending

\* run_nemo_parse(dataset, api_key) entered: filepaths and the empty lists.
Enter ==
    /\ pc' = "loop"
    /\ filepaths' = [k \in 1..dataset.n |-> k]
    /\ i' = 0
    /\ all_detections' = <<>> /\ prompt_tokens' = <<>>
    /\ completion_tokens' = <<>> /\ total_tokens' = <<>>

\* A script calls run_nemo_parse directly.
CallRun ==
    /\ pc = "idle" /\ plugin = "unloaded"
    /\ Enter
    /\ UNCHANGED <<dataset, calls, outcomes, plugin, host, reloads, response, result>>

\* The host imports the plugin package: __init__.py's import of ImportedName
\* from nemo_retriever raises ImportError unless the module defines it.
LoadPlugin ==
    /\ pc = "idle" /\ plugin = "unloaded"
    /\ plugin' = IF ImportedName \in NemoRetrieverNames
                 THEN "registered" ELSE "import_error"
    /\ UNCHANGED <<pc, dataset, filepaths, i, accs, calls, outcomes, host,
                   reloads, response, result>>

\* The host executes the operator: NemoRetrieverParse.execute calls the batch
\* annotator on the target view; without a registered operator the host
\* reports it missing.
Execute ==
    /\ pc = "idle" /\ plugin # "unloaded" /\ host = "idle"
    /\ IF plugin = "registered"
       THEN /\ Enter
            /\ host' = "executing"
       ELSE /\ host' = "operator_missing"
            /\ UNCHANGED <<pc, filepaths, i, accs>>
    /\ UNCHANGED <<dataset, calls, outcomes, plugin, reloads, response, result>>

\* One pass of the for loop over filepaths.
ProcessItem ==
    /\ pc = "loop" /\ i < Len(filepaths)
    /\ \E env \in Envs :
         \E it \in {Iteration(Lists(all_detections, prompt_tokens,
                                     completion_tokens, total_tokens), env)} :
             /\ calls' = calls \o [k \in 1..Len(it.calls) |->
                                     [item |-> i + 1, call |-> it.calls[k].call,
                                      status |-> it.calls[k].status]]
             /\ outcomes' = Append(outcomes,
                    [returned |-> it.returned,
                     response |-> IF it.returned THEN env.response
                                  ELSE NonDictResponse])
             /\ all_detections' = it.L.all_detections
             /\ prompt_tokens' = it.L.prompt_tokens
             /\ completion_tokens' = it.L.completion_tokens
             /\ total_tokens' = it.L.total_tokens
             /\ IF it.exc = "None"
                THEN i' = i + 1 /\ pc' = pc
                ELSE i' = i /\ pc' = "aborted"
    /\ UNCHANGED <<dataset, filepaths, plugin, host, reloads, response, result>>

ListOf(field) ==
    IF field = "nemo_detections" THEN all_detections
    ELSE IF field = "nemo_prompt_tokens" THEN prompt_tokens
    ELSE IF field = "nemo_completion_tokens" THEN completion_tokens
    ELSE total_tokens

\* dataset.set_values(field, values), the k-th of the four calls; after the
\* last one run_nemo_parse returns, and execute emits the reload signal.
SetValues(k) ==
    /\ \/ pc = "loop" /\ i = Len(filepaths) /\ k = 1
       \/ pc = "write" /\ k = Len(dataset.written) + 1
    /\ dataset' = [dataset EXCEPT !.written = Append(@, WriteOrder[k]),
                                  !.values[WriteOrder[k]] = ListOf(WriteOrder[k])]
    /\ pc' = IF k = 4 THEN "done" ELSE "write"
    /\ reloads' = IF k = 4 /\ host = "executing" THEN reloads + 1 ELSE reloads
    /\ host' = IF k = 4 /\ host = "executing" THEN "reloaded" ELSE host
    /\ UNCHANGED <<filepaths, i, accs, calls, outcomes, plugin, response, result>>

\* A set_values call raises; nothing catches it and run_nemo_parse is left.
SetValuesFails ==
    /\ \/ pc = "loop" /\ i = Len(filepaths)
       \/ pc = "write"
    /\ pc' = "aborted"
    /\ UNCHANGED <<dataset, filepaths, i, accs, calls, outcomes, plugin, host,
                   reloads, response, result>>

Next ==
    \/ CallRun
    \/ LoadPlugin
    \/ Execute
    \/ ProcessItem
    \/ \E k \in 1..4 : SetValues(k)
    \/ SetValuesFails

Spec == Init /\ [][Next]_vars

\* The loop and the writes are straight-line code of one thread: once
\* entered, run_nemo_parse keeps taking steps.
FairSpec == Spec /\ WF_vars(ProcessItem) /\ WF_vars(\E k \in 1..4 : SetValues(k) \/ SetValuesFails)

\* --------------------------------------------------- conversion, alone
InitParse ==
    /\ InitRun
    /\ dataset = Dataset(0)
    /\ response \in Responses
    /\ result = Pending

\* detections = parse_nemo_response_to_detections(response)
Convert ==
    /\ ~result.done
    /\ \E r \in {parse_nemo_response_to_detections(response)} :
         result' = [done |-> TRUE, exc |-> r.exc,
                    regions |-> IF r.exc = "None" THEN r.val ELSE <<>>]
    /\ UNCHANGED <<pc, dataset, filepaths, i, accs, calls, outcomes, plugin,
                   host, reloads, response>>

NextParse == Convert

SpecParse == InitParse /\ [][NextParse]_vars

\* ================================================================ claims
Last(s) == s[Len(s)]

\* The pipeline of a processed path raised: process_image did, or the usage
\* extraction did on the response it returned.
PipelineRaised(o) ==
    ~o.returned \/ ~o.response.isDict \/ o.response.usage.k = "null"

Written(f) == \E j \in 1..Len(dataset.written) : dataset.written[j] = f

\* The regions and the counter a path's own outcome calls for.
OwnRegions(o) ==
    IF PipelineRaised(o) THEN <<>>
    ELSE parse_nemo_response_to_detections(o.response).val

OwnCounter(o, key, v) ==
    IF PipelineRaised(o) \/ key \notin o.response.usage.keys THEN 0 ELSE v

\* ---------------------------------------------------------------- C1
\* C1: after every loop iteration the four accumulators have the same
\* length, the number of paths processed so far (so len(filepaths) when the
\* dataset write starts), whatever each per-item step returned or raised.
C1_AccumulatorsSameLength ==
    /\ Len(all_detections) = i
    /\ Len(prompt_tokens) = i
    /\ Len(completion_tokens) = i
    /\ Len(total_tokens) = i

\* ---------------------------------------------------------------- C2
\* C2: the value at position k of each written output field comes from the
\* processing of path k only: empty regions and zero counters if its
\* pipeline raised, else the regions and counters of its own response.
C2_IndexAligned ==
    \A k \in 1..Len(outcomes) :
        /\ Written("nemo_detections") =>
              /\ k <= Len(dataset.values["nemo_detections"])
              /\ dataset.values["nemo_detections"][k] = OwnRegions(outcomes[k])
        /\ Written("nemo_prompt_tokens") =>
              dataset.values["nemo_prompt_tokens"][k] =
                 OwnCounter(outcomes[k], "prompt_tokens", outcomes[k].response.usage.p)
        /\ Written("nemo_completion_tokens") =>
              dataset.values["nemo_completion_tokens"][k] =
                 OwnCounter(outcomes[k], "completion_tokens", outcomes[k].response.usage.c)
        /\ Written("nemo_total_tokens") =>
              dataset.values["nemo_total_tokens"][k] =
                 OwnCounter(outcomes[k], "total_tokens", outcomes[k].response.usage.t)

WellFormedElems(v) ==
    /\ v.k = "list"
    /\ \A k \in 1..Len(v.items) :
         /\ v.items[k].k = "obj"
         /\ v.items[k].e.type # NoKey /\ v.items[k].e.text # NoKey
         /\ v.items[k].e.hasBbox
         /\ \A c \in {v.items[k].e.xmin, v.items[k].e.ymin,
                        v.items[k].e.xmax, v.items[k].e.ymax} :
                c.k \in {"num", "numstr"}

\* Region k is element k: its label, text and [xmin, ymin, width, height].
RegionsMatch(regions, v) ==
    /\ Len(regions) = Len(v.items)
    /\ \A k \in 1..Len(v.items) :
         /\ regions[k].label = v.items[k].e.type
         /\ regions[k].text = v.items[k].e.text
         /\ regions[k].bounding_box =
               <<v.items[k].e.xmin.v, v.items[k].e.ymin.v,
                 v.items[k].e.xmax.v - v.items[k].e.xmin.v,
                 v.items[k].e.ymax.v - v.items[k].e.ymin.v>>

HasArguments(r) == r.isDict /\ r.missing = "none" /\ r.arguments.isStr

\* C4 as stated: arguments that decode to a sequence of N well-formed
\* elements give exactly those N regions, in order.
C4_DecodedSequenceGivesRegions ==
    (/\ result.done /\ HasArguments(response)
     /\ Loads(response.arguments).exc = "None"
     /\ WellFormedElems(Loads(response.arguments).val))
    => RegionsMatch(result.regions, Loads(response.arguments).val)

\* C4 amended: arguments that decode to a sequence whose FIRST element is
\* the sequence of N well-formed elements give exactly those N regions, in
\* order, with bounding box [xmin, ymin, xmax-xmin, ymax-ymin].
C4_FirstElementGivesRegions ==
    (/\ result.done /\ HasArguments(response)
     /\ Loads(response.arguments).exc = "None"
     /\ Loads(response.arguments).val.k = "list"
     /\ Len(Loads(response.arguments).val.items) > 0
     /\ WellFormedElems(Loads(response.arguments).val.items[1]))
    => /\ result.exc = "None"
       /\ RegionsMatch(result.regions, Loads(response.arguments).val.items[1])

\* Two elements converted in order; bbox {10,20,110,220} gave [10,20,100,200].
C4_Witness ==
    /\ result.done
    /\ HasArguments(response)
    /\ response.arguments.text = NestedText(<<GoodElem1, GoodElem2>>)
    /\ Len(result.regions) = 2
    /\ result.regions[1].bounding_box = <<10, 20, 100, 200>>
    /\ result.regions[2].label = "Text"

\* ---------------------------------------------------------------- C5
\* C5: no exception escapes the conversion, whatever the response; a
\* response missing tool_calls yields zero regions.
C5_NoExceptionEscapes ==
    result.done =>
        /\ result.exc = "None"
        /\ (response.isDict /\ response.missing = "tool_calls") => result.regions = <<>>

\* The conversion returned for a response that is no object at all, whose
\* try block raised TypeError.
C5_Witness ==
    /\ result.done /\ result.exc = "None"
    /\ ~response.isDict
    /\ TryBody(response).exc = "TypeError"

\* ---------------------------------------------------------------- C6
\* C6: whenever an exception occurs in the try block, at whatever point,
\* the returned region sequence is empty.
C6_ExceptionGivesEmpty ==
    (result.done /\ TryBody(response).exc # "None") => result.regions = <<>>

\* ---------------------------------------------------------------- C7
\* C7: the name the operator module imports resolves to the batch
\* annotator, executing the operator runs it, and the reload signal is
\* emitted exactly once, only after the annotator completed.
C7_OperatorRunsAnnotator ==
    /\ plugin # "import_error"
    /\ host # "operator_missing"
    /\ reloads <= 1
    /\ reloads = 1 => pc = "done"
    /\ host = "reloaded" => reloads = 1

\* ---------------------------------------------------------------- C8
\* C8: every loop pass contributes exactly one value to each list, and the
\* four values are either Success (the regions and counters of the response)
\* or Failed (empty regions, three zeros).
C8_TwoTerminalStates ==
    [][i' = i + 1 =>
         /\ Len(all_detections') = Len(all_detections) + 1
         /\ Len(prompt_tokens') = Len(prompt_tokens) + 1
         /\ Len(completion_tokens') = Len(completion_tokens) + 1
         /\ Len(total_tokens') = Len(total_tokens) + 1
         /\ Last(all_detections') = OwnRegions(Last(outcomes'))
         /\ Last(prompt_tokens') =
               OwnCounter(Last(outcomes'), "prompt_tokens", Last(outcomes').response.usage.p)
         /\ Last(completion_tokens') =
               OwnCounter(Last(outcomes'), "completion_tokens", Last(outcomes').response.usage.c)
         /\ Last(total_tokens') =
               OwnCounter(Last(outcomes'), "total_tokens", Last(outcomes').response.usage.t)]_vars

\* ---------------------------------------------------------------- C9
\* C9 as stated: the dataset never holds a strict non-empty subset of the
\* four result fields.
C9_AllOrNothing == Len(dataset.written) \in {0, 4}

\* C9 amended: nothing is written before every path is processed, and the
\* fields written are always a prefix of nemo_detections, nemo_prompt_tokens,
\* nemo_completion_tokens, nemo_total_tokens.
C9_WrittenAfterLoopInOrder ==
    /\ Len(dataset.written) > 0 =>
          /\ i = Len(filepaths) /\ Len(outcomes) = Len(filepaths)
          /\ pc \in {"write", "done", "aborted"}
    /\ Len(dataset.written) <= 4
    /\ dataset.written =
          SubSeq(<<"nemo_detections", "nemo_prompt_tokens",
                   "nemo_completion_tokens", "nemo_total_tokens">>,
                 1, Len(dataset.written))

\* The third set_values call raised: two of the four fields stay written.
C9_Witness ==
    /\ pc = "aborted"
    /\ Len(filepaths) > 0
    /\ dataset.written = <<"nemo_detections", "nemo_prompt_tokens">>

\* --------------------------------------------------------------- C10
CallOrder == <<"POST assets", "PUT uploadUrl", "POST chat/completions">>

Success(status) == status >= 200 /\ status < 300

\* Number of calls logged for an item.
CallsOf(item) == Cardinality({j \in 1..Len(calls) : calls[j].item = item})

=============================================================================
